---- MODULE Spec2Model ----
(***************************************************************************)
(* Printer discovery of dayroll (backend/src/discover): the platform       *)
(* scanners, the udev enricher, de-duplication and ranking, and the        *)
(* DiscoveryProvider facade.  One discovery call is one action: discovery  *)
(* is synchronous and keeps no state between calls.  The host (device      *)
(* nodes, udev database, serial ports, USB bus, faults) is chosen in Init. *)
(*                                                                         *)
(* Strings are sequences of one-character strings, so that trim,           *)
(* to_lowercase, contains, byte-wise ordering and {:04x} are computed.     *)
(* Option<T> is <<>> (None) or <<x>> (Some(x)).                            *)
(* The model is of the build with the cargo features linux-udev,           *)
(* mac-serial and mac-usb enabled.                                         *)
(***************************************************************************)
EXTENDS Integers, Sequences, FiniteSets, TLC

\* ------------------------------------------------------------------ bounds
MaxNodes == 3
MaxPorts == 2
MaxUsbDevices == 2

\* ----------------------------------------------------------------- strings
None == <<>>
Some(x) == <<x>>
is_some(o) == Len(o) = 1
is_none(o) == Len(o) = 0
unwrap(o) == o[1]
\* Option::or_else
or_else(a, b) == IF is_some(a) THEN a ELSE b
\* Option<String>::unwrap_or_default
unwrap_or_default(o) == IF is_some(o) THEN o[1] ELSE <<>>

\* The characters in use, in ascending byte order.
Ascii ==
  <<" ", "!", "'", "(", ")", "*", "-", ".", "/", "0", "1", "2", "3", "4", "5",
    "6", "7", "8", "9", ":", "A", "B", "C", "D", "E", "F", "G", "H", "I", "J",
    "K", "L", "M", "N", "O", "P", "Q", "R", "S", "T", "U", "V", "W", "X", "Y",
    "Z", "_", "a", "b", "c", "d", "e", "f", "g", "h", "i", "j", "k", "l", "m",
    "n", "o", "p", "q", "r", "s", "t", "u", "v", "w", "x", "y", "z">>
UpperAlpha ==
  <<"A", "B", "C", "D", "E", "F", "G", "H", "I", "J", "K", "L", "M", "N", "O",
    "P", "Q", "R", "S", "T", "U", "V", "W", "X", "Y", "Z">>
LowerAlpha ==
  <<"a", "b", "c", "d", "e", "f", "g", "h", "i", "j", "k", "l", "m", "n", "o",
    "p", "q", "r", "s", "t", "u", "v", "w", "x", "y", "z">>
HexDigits ==
  <<"0", "1", "2", "3", "4", "5", "6", "7", "8", "9", "a", "b", "c", "d", "e", "f">>

\* Position of a character in byte order.
Ord(c) == CHOOSE i \in 1..Len(Ascii) : Ascii[i] = c

\* Ord for String: byte-wise lexicographic comparison.
RECURSIVE StrLess(_, _)
StrLess(a, b) ==
  IF b = <<>> THEN FALSE
  ELSE IF a = <<>> THEN TRUE
  ELSE IF Head(a) = Head(b) THEN StrLess(Tail(a), Tail(b))
  ELSE Ord(Head(a)) < Ord(Head(b))

\* str::contains(pat)
contains(s, pat) ==
  \E i \in 1..(Len(s) - Len(pat) + 1) : SubSeq(s, i, i + Len(pat) - 1) = pat

starts_with(s, pre) == Len(s) >= Len(pre) /\ SubSeq(s, 1, Len(pre)) = pre

\* char::to_lowercase on the characters in use
lower_char(c) ==
  IF \E i \in 1..Len(UpperAlpha) : UpperAlpha[i] = c
  THEN LowerAlpha[CHOOSE i \in 1..Len(UpperAlpha) : UpperAlpha[i] = c]
  ELSE c

\* str::to_lowercase
to_lowercase(s) == [i \in 1..Len(s) |-> lower_char(s[i])]

\* str::trim: strip leading and trailing white space
RECURSIVE trim_start(_)
trim_start(s) ==
  IF s # <<>> /\ Head(s) = " " THEN trim_start(Tail(s)) ELSE s
RECURSIVE trim_end(_)
trim_end(s) ==
  IF s # <<>> /\ s[Len(s)] = " " THEN trim_end(SubSeq(s, 1, Len(s) - 1)) ELSE s
trim(s) == trim_end(trim_start(s))

\* format!("{} {}", a, b).trim().to_string()
make_model_string(a, b) == trim(a \o <<" ">> \o b)

\* format!("{:04x}", n) for a u16
hex04(n) ==
  << HexDigits[((n \div 4096) % 16) + 1], HexDigits[((n \div 256) % 16) + 1],
     HexDigits[((n \div 16) % 16) + 1], HexDigits[(n % 16) + 1] >>

\* u8::max
max(a, b) == IF a >= b THEN a ELSE b

\* ------------------------------------------------------------ sequences
Range(s) == {s[i] : i \in 1..Len(s)}

RECURSIVE Concat(_)
Concat(ss) == IF ss = <<>> THEN <<>> ELSE Head(ss) \o Concat(Tail(ss))

\* The strings of a set, ascending
RECURSIVE SortedStrings(_)
SortedStrings(S) ==
  IF S = {} THEN <<>>
  ELSE LET m == CHOOSE x \in S : \A y \in S \ {x} : StrLess(x, y)
       IN <<m>> \o SortedStrings(S \ {m})

\* Result<T>
Ok(v) == [ok |-> TRUE, err |-> "", val |-> v]
Err(e) == [ok |-> FALSE, err |-> e, val |-> <<>>]

\* ---------------------------------------------------------------- model.rs
\* Transport::UsbLp { path } / Transport::Serial { path }
UsbLp(p) == [kind |-> "UsbLp", path |-> p]
Serial(p) == [kind |-> "Serial", path |-> p]
\* Transport::UsbDevice { vid, pid, serial }, as macos.rs constructs it
UsbDevice(v, p, s) == [kind |-> "UsbDevice", vid |-> v, pid |-> p, serial |-> s]

Candidate(t, mm, s, v, p, c, n) ==
  [transport |-> t, make_model |-> mm, serial |-> s, vid |-> v, pid |-> p,
   confidence |-> c, notes |-> n]

\* Candidate::transport_path
transport_path(c) ==
  IF c.transport.kind \in {"UsbLp", "Serial"} THEN Some(c.transport.path) ELSE None

\* ------------------------------------------------------- the Linux host
\* The device nodes a Linux host may show.
DevUsbLp0 == <<"/", "d", "e", "v", "/", "u", "s", "b", "/", "l", "p", "0">>
DevUsbLp1 == <<"/", "d", "e", "v", "/", "u", "s", "b", "/", "l", "p", "1">>
DevTtyUSB0 == <<"/", "d", "e", "v", "/", "t", "t", "y", "U", "S", "B", "0">>
DevTtyACM0 == <<"/", "d", "e", "v", "/", "t", "t", "y", "A", "C", "M", "0">>
NodeUniverse == {DevUsbLp0, DevUsbLp1, DevTtyUSB0, DevTtyACM0}

\* The glob patterns of the scanners.
PatUsbLp == <<"/", "d", "e", "v", "/", "u", "s", "b", "/", "l", "p", "*">>
PatTtyUSB == <<"/", "d", "e", "v", "/", "t", "t", "y", "U", "S", "B", "*">>
PatTtyACM == <<"/", "d", "e", "v", "/", "t", "t", "y", "A", "C", "M", "*">>

\* A udev property list: the properties the code reads, each present or not.
Props(vdb, v, mdb, m, ss, s, vid, pid, ifs) ==
  [ID_VENDOR_FROM_DATABASE |-> vdb, ID_VENDOR |-> v,
   ID_MODEL_FROM_DATABASE |-> mdb, ID_MODEL |-> m,
   ID_SERIAL_SHORT |-> ss, ID_SERIAL |-> s,
   ID_VENDOR_ID |-> vid, ID_MODEL_ID |-> pid, ID_USB_INTERFACES |-> ifs]

\* A receipt printer: vendor, model, serial, ids, a printer-class interface.
PropsEpson ==
  Props(None, Some(<<"E", "p", "s", "o", "n">>),
        None, Some(<<"T", "M", "-", "T", "2", "0">>),
        Some(<<"X", "1">>), Some(<<"E", "_", "X", "1">>),
        Some(<<"0", "4", "b", "8">>), Some(<<"0", "e", "1", "5">>),
        Some(<<":", "0", "7", "0", "1", "0", "2", ":">>))
\* A USB-serial adapter: database and raw names, a vendor-specific interface.
PropsFtdi ==
  Props(Some(<<"F", "u", "t", "u", "r", "e">>), Some(<<"F", "T", "D", "I">>),
        None, Some(<<"U", "A", "R", "T">>),
        None, Some(<<"F", "_", "9">>),
        Some(<<"0", "4", "0", "3">>), Some(<<"6", "0", "0", "1">>),
        Some(<<":", "f", "f", "f", "f", "f", "f", ":">>))
\* A device known by a database model name only, with a keyword in capitals.
PropsPos ==
  Props(None, None,
        Some(<<"P", "O", "S", "5", "8">>), Some(<<"g", "a", "d", "g", "e", "t">>),
        None, None, None, None, None)
\* A blank vendor, and a vendor-specific interface of subclass 07 protocol 01.
PropsBlank ==
  Props(None, Some(<<" ">>), None, None, None, None, None, None,
        Some(<<":", "f", "f", "0", "7", "0", "1", ":">>))
\* A device with a serial number and nothing else.
PropsSerialOnly ==
  Props(None, None, None, None, None, Some(<<"S", "7">>), None, None, None)
PropsUniverse == {PropsEpson, PropsFtdi, PropsPos, PropsBlank, PropsSerialOnly}

\* What can go wrong underneath a Linux pass.
LinuxFaults == {"none", "unreadable:/dev/usb", "unreadable:/dev", "udev:new", "udev:scan"}

\* ------------------------------------------------------------- glob crate
\* Pattern::new fails on a malformed character class; nothing else in these patterns can.
pattern_error(pat) ==
  (\E i \in 1..Len(pat) : pat[i] = "[") /\ ~(\E i \in 1..Len(pat) : pat[i] = "]")

\* The directory a pattern "<dir>/<prefix>*" lists.
pattern_dir(pat) ==
  LET last == CHOOSE i \in 1..Len(pat) :
                 pat[i] = "/" /\ \A j \in (i + 1)..Len(pat) : pat[j] # "/"
  IN SubSeq(pat, 1, last - 1)

\* A path matches "<dir>/<prefix>*": the prefix, then no further separator.
pattern_matches(pat, path) ==
  LET pre == SubSeq(pat, 1, Len(pat) - 1)
  IN /\ starts_with(path, pre)
     /\ \A j \in (Len(pre) + 1)..Len(path) : path[j] # "/"

DirUnreadable(dir, fault) ==
  \/ fault = "unreadable:/dev/usb" /\ dir = <<"/", "d", "e", "v", "/", "u", "s", "b">>
  \/ fault = "unreadable:/dev" /\ dir = <<"/", "d", "e", "v">>

\* glob(pat): Err on a bad pattern; else the entries, ascending: Ok(path) for each
\* match, or one Err(GlobError) when the directory cannot be read.
glob(pat, fs, fault) ==
  IF pattern_error(pat) THEN Err("PatternError")
  ELSE IF DirUnreadable(pattern_dir(pat), fault) THEN Ok(<<Err("GlobError")>>)
  ELSE LET paths == SortedStrings({p \in fs : pattern_matches(pat, p)})
       IN Ok([i \in 1..Len(paths) |-> Ok(paths[i])])

\* --------------------------------------------------------------- linux.rs
NoteUsbLp == <<"Found /dev/usb/lp* node (USB printer class)">>
NoteSerialNode(pat) == <<"Found serial device node ({pat})", pat>>
NoteUdevIfaces == <<"udev: ID_USB_INTERFACES indicates USB printer class (07)">>
NoteKeyword(kw) == <<"make/model contains keyword '{kw}'", kw>>

\* One pass of a scanner's loop over glob entries: an Err entry is skipped.
RECURSIVE scan_entries(_, _, _, _)
scan_entries(entries, kind, conf, note) ==
  IF entries = <<>> THEN <<>>
  ELSE LET entry == Head(entries)
           rest == scan_entries(Tail(entries), kind, conf, note)
       IN IF ~entry.ok THEN rest
          ELSE << Candidate([kind |-> kind, path |-> entry.val],
                            None, None, None, None, conf, <<note>>) >> \o rest

scan_usb_lp_nodes(fs, fault) ==
  LET g == glob(PatUsbLp, fs, fault)
  IN IF ~g.ok THEN Err(g.err)
     ELSE Ok(scan_entries(g.val, "UsbLp", 80, NoteUsbLp))

serial_patterns == <<PatTtyUSB, PatTtyACM>>

RECURSIVE scan_serial_patterns(_, _, _)
scan_serial_patterns(pats, fs, fault) ==
  IF pats = <<>> THEN Ok(<<>>)
  ELSE LET g == glob(Head(pats), fs, fault)
       IN IF ~g.ok THEN Err(g.err)
          ELSE LET rest == scan_serial_patterns(Tail(pats), fs, fault)
               IN IF ~rest.ok THEN rest
                  ELSE Ok(scan_entries(g.val, "Serial", 40, NoteSerialNode(Head(pats)))
                          \o rest.val)

scan_serial_nodes(fs, fault) == scan_serial_patterns(serial_patterns, fs, fault)

\* The properties that make a udev device worth keeping in the map.
has_useful_key(props) ==
  \/ is_some(props.ID_MODEL) \/ is_some(props.ID_MODEL_FROM_DATABASE)
  \/ is_some(props.ID_VENDOR) \/ is_some(props.ID_VENDOR_FROM_DATABASE)
  \/ is_some(props.ID_USB_INTERFACES)

\* devnode -> properties, or the enumerator's error
build_udev_devnode_map(db, fault) ==
  IF fault = "udev:new" THEN Err("Enumerator::new")
  ELSE IF fault = "udev:scan" THEN Err("scan_devices")
  ELSE Ok([n \in {d \in DOMAIN db : has_useful_key(db[d])} |-> db[n]])

keywords ==
  << <<"e", "p", "s", "o", "n">>, <<"s", "t", "a", "r">>,
     <<"b", "i", "x", "o", "l", "o", "n">>, <<"c", "i", "t", "i", "z", "e", "n">>,
     <<"s", "e", "w", "o", "o">>, <<"z", "j", "i", "a", "n", "g">>,
     <<"x", "p", "r", "i", "n", "t", "e", "r">>, <<"p", "o", "s">>,
     <<"r", "e", "c", "e", "i", "p", "t">>, <<"t", "h", "e", "r", "m", "a", "l">> >>

\* The first keyword of kws that mm_l contains, if any (the loop with its break).
RECURSIVE first_keyword(_, _)
first_keyword(mm_l, kws) ==
  IF kws = <<>> THEN None
  ELSE IF contains(mm_l, Head(kws)) THEN Some(Head(kws))
  ELSE first_keyword(mm_l, Tail(kws))

\* As enrich_make_model, with the confidence assigned instead of raised.
enrich_make_model_assigning(cand, props) ==
  LET vendor == or_else(props.ID_VENDOR_FROM_DATABASE, props.ID_VENDOR)
      model == or_else(props.ID_MODEL_FROM_DATABASE, props.ID_MODEL)
      mm == make_model_string(unwrap_or_default(vendor), unwrap_or_default(model))
  IN IF is_none(cand.make_model) /\ (is_some(vendor) \/ is_some(model)) /\ mm # <<>>
     THEN [cand EXCEPT !.make_model = Some(mm), !.confidence = 55]
     ELSE cand

\* The make/model step: fill make_model if absent and a name is known.
enrich_make_model(cand, props) ==
  LET vendor == or_else(props.ID_VENDOR_FROM_DATABASE, props.ID_VENDOR)
      model == or_else(props.ID_MODEL_FROM_DATABASE, props.ID_MODEL)
      mm == make_model_string(unwrap_or_default(vendor), unwrap_or_default(model))
  IN IF is_none(cand.make_model) /\ (is_some(vendor) \/ is_some(model)) /\ mm # <<>>
     THEN [cand EXCEPT !.make_model = Some(mm), !.confidence = max(@, 55)]
     ELSE cand

\* As enrich_ids, with the record's values taken whenever the record has them.
enrich_ids_overwriting(cand, props) ==
  LET serial == or_else(props.ID_SERIAL_SHORT, props.ID_SERIAL)
  IN [cand EXCEPT
        !.serial = IF is_some(serial) THEN serial ELSE @,
        !.vid = IF is_some(props.ID_VENDOR_ID) THEN props.ID_VENDOR_ID ELSE @,
        !.pid = IF is_some(props.ID_MODEL_ID) THEN props.ID_MODEL_ID ELSE @]

\* Serial, vendor id and product id: only where absent.
enrich_ids(cand, props) ==
  [cand EXCEPT
     !.serial = IF is_none(@) THEN or_else(props.ID_SERIAL_SHORT, props.ID_SERIAL) ELSE @,
     !.vid = IF is_none(@) THEN props.ID_VENDOR_ID ELSE @,
     !.pid = IF is_none(@) THEN props.ID_MODEL_ID ELSE @]

\* As enrich_interfaces, with the confidence added to instead of raised to a floor.
enrich_interfaces_adding(cand, props) ==
  IF /\ is_some(props.ID_USB_INTERFACES)
     /\ contains(unwrap(props.ID_USB_INTERFACES), <<":", "0", "7">>)
  THEN [cand EXCEPT !.confidence = (@ + 30) % 256, !.notes = Append(@, NoteUdevIfaces)]
  ELSE cand

\* The printer-class heuristic on ID_USB_INTERFACES.
enrich_interfaces(cand, props) ==
  IF /\ is_some(props.ID_USB_INTERFACES)
     /\ LET ifaces == unwrap(props.ID_USB_INTERFACES)
        IN \/ contains(ifaces, <<":", "0", "7", "0", "1">>)
           \/ contains(ifaces, <<":", "0", "7", "0", "0">>)
           \/ contains(ifaces, <<":", "0", "7">>)
  THEN [cand EXCEPT !.confidence = max(@, 90), !.notes = Append(@, NoteUdevIfaces)]
  ELSE cand

\* The keyword heuristic on the make/model the candidate now has.
enrich_keyword(cand) ==
  IF is_none(cand.make_model) THEN cand
  ELSE LET kw == first_keyword(to_lowercase(unwrap(cand.make_model)), keywords)
       IN IF is_some(kw)
          THEN [cand EXCEPT !.confidence = max(@, 70),
                            !.notes = Append(@, NoteKeyword(unwrap(kw)))]
          ELSE cand

\* As enrich_candidate, with a note left on a candidate udev does not know.
enrich_candidate_noting_miss(cand, devmap) ==
  LET devnode == transport_path(cand)
  IN IF is_none(devnode) THEN cand
     ELSE IF unwrap(devnode) \notin DOMAIN devmap
     THEN [cand EXCEPT !.notes = Append(@, <<"No udev metadata match for devnode">>)]
     ELSE LET props == devmap[unwrap(devnode)]
          IN enrich_keyword(enrich_interfaces(enrich_ids(
               enrich_make_model(cand, props), props), props))

\* The body of the enricher's loop for one candidate.
enrich_candidate(cand, devmap) ==
  LET devnode == transport_path(cand)
  IN IF is_none(devnode) THEN cand
     ELSE IF unwrap(devnode) \notin DOMAIN devmap THEN cand
     ELSE LET props == devmap[unwrap(devnode)]
          IN enrich_keyword(enrich_interfaces(enrich_ids(
               enrich_make_model(cand, props), props), props))

\* As enrich_with_udev, with a failed enumeration taken as "no metadata".
enrich_with_udev_best_effort(cands, db, fault) ==
  LET devmap == build_udev_devnode_map(db, fault)
  IN IF ~devmap.ok THEN Ok(cands)
     ELSE Ok([i \in 1..Len(cands) |-> enrich_candidate(cands[i], devmap.val)])

enrich_with_udev(cands, db, fault) ==
  LET devmap == build_udev_devnode_map(db, fault)
  IN IF ~devmap.ok THEN Err(devmap.err)
     ELSE Ok([i \in 1..Len(cands) |-> enrich_candidate(cands[i], devmap.val)])

\* The key of the de-duplication sort.
path_key(c) == IF is_some(transport_path(c)) THEN unwrap(transport_path(c)) ELSE <<>>

\* cands.sort_by_key(path): stable insertion into an ascending list.
RECURSIVE insert_by_path(_, _)
insert_by_path(x, s) ==
  IF s = <<>> THEN <<x>>
  ELSE IF StrLess(path_key(x), path_key(Head(s))) THEN <<x>> \o s
  ELSE <<Head(s)>> \o insert_by_path(x, Tail(s))
RECURSIVE sort_by_path(_)
sort_by_path(s) ==
  IF s = <<>> THEN <<>>
  ELSE insert_by_path(s[Len(s)], sort_by_path(SubSeq(s, 1, Len(s) - 1)))

\* Vec::dedup_by(same path): of a run of equal neighbours the first stays.
RECURSIVE dedup_by_path(_)
dedup_by_path(s) ==
  IF Len(s) <= 1 THEN s
  ELSE IF transport_path(s[2]) = transport_path(s[1])
       THEN dedup_by_path(<<s[1]>> \o SubSeq(s, 3, Len(s)))
       ELSE <<s[1]>> \o dedup_by_path(Tail(s))

\* As dedup_by_transport_path, without the sort.
dedup_keeping_order(cands) == dedup_by_path(cands)

dedup_by_transport_path(cands) == dedup_by_path(sort_by_path(cands))

\* As sort_by_confidence, with the comparison the other way round.
RECURSIVE insert_by_confidence_ascending(_, _)
insert_by_confidence_ascending(x, s) ==
  IF s = <<>> THEN <<x>>
  ELSE IF x.confidence < Head(s).confidence THEN <<x>> \o s
  ELSE <<Head(s)>> \o insert_by_confidence_ascending(x, Tail(s))
RECURSIVE sort_by_confidence_ascending(_)
sort_by_confidence_ascending(s) ==
  IF s = <<>> THEN <<>>
  ELSE insert_by_confidence_ascending(
         s[Len(s)], sort_by_confidence_ascending(SubSeq(s, 1, Len(s) - 1)))

\* sort_by(|a, b| b.confidence.cmp(&a.confidence)): stable, highest first.
RECURSIVE insert_by_confidence(_, _)
insert_by_confidence(x, s) ==
  IF s = <<>> THEN <<x>>
  ELSE IF x.confidence > Head(s).confidence THEN <<x>> \o s
  ELSE <<Head(s)>> \o insert_by_confidence(x, Tail(s))
RECURSIVE sort_by_confidence(_)
sort_by_confidence(s) ==
  IF s = <<>> THEN <<>>
  ELSE insert_by_confidence(s[Len(s)], sort_by_confidence(SubSeq(s, 1, Len(s) - 1)))

\* LinuxDiscovery::new() and the derived Default
LinuxDiscovery_new == [include_serial |-> TRUE, use_udev |-> TRUE]
LinuxDiscovery_default == [include_serial |-> FALSE, use_udev |-> FALSE]

\* What one call leaves behind: the result, the candidates as scanned, the
\* candidates as enriched, and the enumeration calls made, in order.
Pass(out, raw, enriched, calls) ==
  [out |-> out, raw |-> raw, enriched |-> enriched, calls |-> calls]

\* LinuxDiscovery::discover
LinuxDiscovery_discover(self, fs, db, fault) ==
  LET lp == scan_usb_lp_nodes(fs, fault)
      calls1 == <<"glob:lp">>
  IN IF ~lp.ok THEN Pass(Err(lp.err), <<>>, <<>>, calls1)
     ELSE
     LET ser == IF self.include_serial THEN scan_serial_nodes(fs, fault) ELSE Ok(<<>>)
         calls2 == calls1 \o (IF self.include_serial THEN <<"glob:serial">> ELSE <<>>)
     IN IF ~ser.ok THEN Pass(Err(ser.err), lp.val, <<>>, calls2)
        ELSE
        LET cands == lp.val \o ser.val
            enr == IF self.use_udev THEN enrich_with_udev(cands, db, fault) ELSE Ok(cands)
            calls3 == calls2 \o (IF self.use_udev THEN <<"udev">> ELSE <<>>)
        IN IF ~enr.ok THEN Pass(Err(enr.err), cands, <<>>, calls3)
           ELSE Pass(Ok(sort_by_confidence(dedup_by_transport_path(enr.val))),
                     cands, enr.val, calls3)

\* ------------------------------------------------------- the macOS host
\* serialport::SerialPortInfo: the port name, and UsbPortInfo for a USB port.
UsbPortInfo(v, p, s, mfg, prod) ==
  [vid |-> v, pid |-> p, serial_number |-> s, manufacturer |-> mfg, product |-> prod]
SerialPortInfo(name, usb) == [port_name |-> name, port_type |-> usb]

\* A USB-serial adapter with manufacturer and product names.
PortFtdi ==
  SerialPortInfo(<<"/", "d", "e", "v", "/", "c", "u", ".", "u", "s", "b", "s", "e", "r", "i", "a", "l", "-", "1">>,
    Some(UsbPortInfo(1027, 24577, Some(<<"F", "_", "9">>), Some(<<"F", "T", "D", "I">>), Some(<<"U", "A", "R", "T">>))))
\* A port that is not USB-backed.
PortBluetooth == SerialPortInfo(<<"/", "d", "e", "v", "/", "c", "u", ".", "B", "l", "u", "e", "t", "o", "o", "t", "h">>, None)
\* A USB printer's serial port: a manufacturer with a keyword, no product.
PortStar ==
  SerialPortInfo(<<"/", "d", "e", "v", "/", "c", "u", ".", "u", "s", "b", "m", "o", "d", "e", "m", "1">>,
    Some(UsbPortInfo(1305, 3, None, Some(<<"S", "t", "a", "r">>), None)))
\* A USB port that reports no names.
PortAnon ==
  SerialPortInfo(<<"/", "d", "e", "v", "/", "c", "u", ".", "u", "s", "b", "s", "e", "r", "i", "a", "l", "-", "2">>, Some(UsbPortInfo(6790, 29987, None, None, None)))
PortUniverse == {PortFtdi, PortBluetooth, PortStar, PortAnon}

\* The outcome of reading one string descriptor: no index in the device
\* descriptor, a value, an error, or a timeout.
NoIndex == [st |-> "noindex", val |-> <<>>]
Read(v) == [st |-> "ok", val |-> v]
ReadError == [st |-> "error", val |-> <<>>]
ReadTimeout == [st |-> "timeout", val |-> <<>>]

\* A device on the bus: whether its device descriptor and active configuration
\* can be read, the class codes of its interface settings, whether each of the
\* two opens succeeds, and the outcome of each string read.
UsbDev(v, p, dok, cok, cls, o1, o2, mfg, prod, ser) ==
  [vid |-> v, pid |-> p, descriptor_ok |-> dok, config_ok |-> cok, classes |-> cls,
   open_serial |-> o1, open_strings |-> o2,
   manufacturer |-> mfg, product |-> prod, serial |-> ser]

\* libusb_get_device_descriptor always succeeds (libusb 1.0.16 and later), so
\* every device of the universe has descriptor_ok.
\* A printer whose strings all read.
DevEpson ==
  UsbDev(1208, 3605, TRUE, TRUE, <<7>>, TRUE, TRUE, Read(<<"E", "p", "s", "o", "n">>), Read(<<"T", "M", "-", "T", "2", "0">>), Read(<<"X", "1">>))
\* The same model; the manufacturer read times out.
DevEpsonMfgTimeout ==
  UsbDev(1208, 3605, TRUE, TRUE, <<7>>, TRUE, TRUE, ReadTimeout, Read(<<"T", "M", "-", "T", "2", "0">>), Read(<<"X", "1">>))
\* The same model; only the serial-number read fails.
DevEpsonSerialError ==
  UsbDev(1208, 3605, TRUE, TRUE, <<7>>, TRUE, TRUE, Read(<<"E", "p", "s", "o", "n">>), Read(<<"T", "M", "-", "T", "2", "0">>), ReadError)
\* The same model; it cannot be opened.
DevEpsonNoOpen ==
  UsbDev(1208, 3605, TRUE, TRUE, <<7>>, FALSE, FALSE, Read(<<"E", "p", "s", "o", "n">>), Read(<<"T", "M", "-", "T", "2", "0">>), Read(<<"X", "1">>))
\* A hub.
DevHub ==
  UsbDev(1507, 1544, TRUE, TRUE, <<9>>, TRUE, TRUE, Read(<<"A", "c", "m", "e">>), Read(<<"H", "u", "b">>), NoIndex)
\* A printer whose active configuration cannot be read.
DevNoConfig ==
  UsbDev(1305, 3, TRUE, FALSE, <<7>>, TRUE, TRUE, Read(<<"S", "t", "a", "r">>), Read(<<"T", "S", "P", "1", "0", "0">>), NoIndex)
\* A composite device with a printer interface and empty names; the first open fails.
DevComposite ==
  UsbDev(1305, 7, TRUE, TRUE, <<8, 7>>, FALSE, TRUE, Read(<<>>), Read(<<>>), Read(<<"S", "7">>))
UsbUniverse ==
  {DevEpson, DevEpsonMfgTimeout, DevEpsonSerialError, DevEpsonNoOpen, DevHub,
   DevNoConfig, DevComposite}

\* What can go wrong underneath a macOS pass.
MacFaults == {"none", "serialport:available_ports", "usb:context", "usb:devices"}

\* --------------------------------------------------------------- macos.rs
NoteSerialPort(path) == <<"serialport: {}", path>>
NoteUsbBacked == <<"serialport: USB-backed serial device">>
NoteLibusb == <<"libusb: device exposes USB printer class interface (0x07)">>

mac_keywords ==
  << <<"e", "p", "s", "o", "n">>, <<"s", "t", "a", "r">>,
     <<"b", "i", "x", "o", "l", "o", "n">>, <<"c", "i", "t", "i", "z", "e", "n">>,
     <<"s", "e", "w", "o", "o">>, <<"p", "o", "s">>,
     <<"r", "e", "c", "e", "i", "p", "t">>, <<"t", "h", "e", "r", "m", "a", "l">> >>

\* The UsbPort arm of the match on port_type.
usb_port_candidate(c, info) ==
  LET c1 == [c EXCEPT !.vid = Some(hex04(info.vid)), !.pid = Some(hex04(info.pid)),
                      !.serial = info.serial_number]
      mm == make_model_string(unwrap_or_default(info.manufacturer),
                              unwrap_or_default(info.product))
      c2 == IF mm # <<>>
            THEN [c1 EXCEPT !.make_model = Some(mm), !.confidence = max(@, 60),
                            !.notes = Append(@, NoteUsbBacked)]
            ELSE c1
      kw == IF is_some(c2.make_model)
            THEN first_keyword(to_lowercase(unwrap(c2.make_model)), mac_keywords)
            ELSE None
  IN IF is_some(kw)
     THEN [c2 EXCEPT !.confidence = max(@, 70),
                     !.notes = Append(@, NoteKeyword(unwrap(kw)))]
     ELSE c2

\* The candidate of one serial port.
serial_port_candidate(p) ==
  LET c == Candidate(Serial(p.port_name), None, None, None, None, 35,
                     <<NoteSerialPort(p.port_name)>>)
  IN IF is_some(p.port_type) THEN usb_port_candidate(c, unwrap(p.port_type)) ELSE c

discover_serial_ports(ps, fault) ==
  IF fault = "serialport:available_ports" THEN Err("available_ports")
  ELSE Ok([i \in 1..Len(ps) |-> serial_port_candidate(ps[i])])

\* Ok(true) iff some interface setting of the active configuration has class 0x07;
\* an unreadable configuration is Ok(false).
device_has_printer_interface(dev) ==
  IF ~dev.config_ok THEN Ok(FALSE)
  ELSE Ok(\E i \in 1..Len(dev.classes) : dev.classes[i] = 7)

\* index.and_then(|i| handle.read_string_descriptor_ascii(i).ok())
read_string(r) == IF r.st = "ok" THEN Some(r.val) ELSE None

\* As read_usb_strings, with a string that did not read taken as empty.
read_usb_strings_lenient(dev) ==
  IF ~dev.open_strings THEN Ok(None)
  ELSE Ok(Some(<<unwrap_or_default(read_string(dev.manufacturer)),
                 unwrap_or_default(read_string(dev.product))>>))

read_usb_strings(dev) ==
  IF ~dev.open_strings THEN Ok(None)
  ELSE LET mfg == read_string(dev.manufacturer)
           prod == read_string(dev.product)
       IN IF is_some(mfg) /\ is_some(prod)
          THEN Ok(Some(<<unwrap(mfg), unwrap(prod)>>))
          ELSE Ok(None)

read_usb_serial(dev) ==
  IF ~dev.open_serial THEN Ok(None) ELSE Ok(read_string(dev.serial))

\* The candidate of one printer-class device.
usb_device_candidate(dev) ==
  LET rs == read_usb_serial(dev)
      serial == IF rs.ok THEN rs.val ELSE None
      c == Candidate(UsbDevice(dev.vid, dev.pid, serial), None, serial,
                     Some(hex04(dev.vid)), Some(hex04(dev.pid)), 80, <<NoteLibusb>>)
      st == read_usb_strings(dev)
      mm == IF st.ok /\ is_some(st.val)
            THEN make_model_string(unwrap(st.val)[1], unwrap(st.val)[2])
            ELSE <<>>
  IN IF st.ok /\ is_some(st.val) /\ mm # <<>>
     THEN [c EXCEPT !.make_model = Some(mm), !.confidence = max(@, 85)]
     ELSE c

\* The loop over the devices of the bus; each ? leaves the loop with the error.
RECURSIVE scan_usb_devices(_)
scan_usb_devices(devs) ==
  IF devs = <<>> THEN Ok(<<>>)
  ELSE LET dev == Head(devs)
           has == device_has_printer_interface(dev)
       IN IF ~dev.descriptor_ok THEN Err("device_descriptor")
          ELSE IF ~has.ok THEN Err(has.err)
          ELSE LET rest == scan_usb_devices(Tail(devs))
               IN IF ~rest.ok THEN rest
                  ELSE IF ~has.val THEN rest
                  ELSE Ok(<<usb_device_candidate(dev)>> \o rest.val)

discover_usb_printer_class(devs, fault) ==
  IF fault = "usb:context" THEN Err("Context::new")
  ELSE IF fault = "usb:devices" THEN Err("devices")
  ELSE scan_usb_devices(devs)

\* MacDiscovery::new() and the derived Default
MacDiscovery_new == [include_serial |-> TRUE, include_usb |-> TRUE]
MacDiscovery_default == [include_serial |-> FALSE, include_usb |-> FALSE]

\* MacDiscovery::discover
MacDiscovery_discover(self, ps, devs, fault) ==
  LET ser == IF self.include_serial THEN discover_serial_ports(ps, fault) ELSE Ok(<<>>)
      calls1 == IF self.include_serial THEN <<"available_ports">> ELSE <<>>
  IN IF ~ser.ok THEN Pass(Err(ser.err), <<>>, <<>>, calls1)
     ELSE
     LET usb == IF self.include_usb THEN discover_usb_printer_class(devs, fault) ELSE Ok(<<>>)
         calls2 == calls1 \o (IF self.include_usb THEN <<"usb">> ELSE <<>>)
     IN IF ~usb.ok THEN Pass(Err(usb.err), ser.val, <<>>, calls2)
        ELSE LET out == ser.val \o usb.val
             IN Pass(Ok(sort_by_confidence(out)), out, out, calls2)

\* ---------------------------------------------------------------- main.rs
NoteLegacyIfaces == <<"udev: ID_USB_INTERFACES indicates printer class (07)">>
NoteNoUdevMatch == <<"No udev metadata match for devnode; leaving generic candidate">>

legacy_keywords ==
  << <<"e", "p", "s", "o", "n">>, <<"s", "t", "a", "r">>,
     <<"b", "i", "x", "o", "l", "o", "n">>, <<"c", "i", "t", "i", "z", "e", "n">>,
     <<"s", "e", "w", "o", "o">>, <<"z", "j", "i", "a", "n", "g">>,
     <<"x", "p", "r", "i", "n", "t", "e", "r">>, <<"p", "o", "s">>,
     <<"t", "h", "e", "r", "m", "a", "l">> >>

\* The body run for the udev device whose devnode is the path.
candidate_from_props(cand, props) ==
  LET vendor == or_else(props.ID_VENDOR_FROM_DATABASE, props.ID_VENDOR)
      model == or_else(props.ID_MODEL_FROM_DATABASE, props.ID_MODEL)
      c1 == IF is_some(vendor) \/ is_some(model)
            THEN [cand EXCEPT
                    !.make_model = Some(make_model_string(unwrap_or_default(vendor),
                                                          unwrap_or_default(model))),
                    !.confidence = max(@, 50)]
            ELSE cand
      c2 == [c1 EXCEPT !.serial = or_else(props.ID_SERIAL_SHORT, props.ID_SERIAL),
                       !.vid = props.ID_VENDOR_ID, !.pid = props.ID_MODEL_ID]
      c3 == IF /\ is_some(props.ID_USB_INTERFACES)
               /\ LET ifaces == unwrap(props.ID_USB_INTERFACES)
                  IN \/ contains(ifaces, <<":", "0", "7", "0", "1">>)
                     \/ contains(ifaces, <<":", "0", "7", "0", "0">>)
                     \/ contains(ifaces, <<":", "0", "7">>)
            THEN [c2 EXCEPT !.confidence = max(@, 85),
                            !.notes = Append(@, NoteLegacyIfaces)]
            ELSE c2
      kw == IF is_some(c3.make_model)
            THEN first_keyword(to_lowercase(unwrap(c3.make_model)), legacy_keywords)
            ELSE None
  IN IF is_some(kw)
     THEN [c3 EXCEPT !.confidence = max(@, 70),
                     !.notes = Append(@, NoteKeyword(unwrap(kw)))]
     ELSE c3

candidate_from_devnode(devnode, db, fault) ==
  LET cand == Candidate(UsbLp(devnode), None, None, None, None, 10, <<>>)
  IN IF fault = "udev:new" THEN Err("Enumerator::new")
     ELSE IF fault = "udev:scan" THEN Err("scan_devices")
     ELSE IF devnode \in DOMAIN db THEN Ok(candidate_from_props(cand, db[devnode]))
     ELSE Ok([cand EXCEPT !.notes = Append(@, NoteNoUdevMatch)])

\* One of the two loops over glob entries; a ? leaves the loop with the error.
RECURSIVE legacy_entries(_, _, _, _, _, _)
legacy_entries(entries, kind, floor, note, db, fault) ==
  IF entries = <<>> THEN Ok(<<>>)
  ELSE IF ~Head(entries).ok THEN legacy_entries(Tail(entries), kind, floor, note, db, fault)
  ELSE LET path == Head(entries).val
           r == candidate_from_devnode(path, db, fault)
       IN IF ~r.ok THEN r
          ELSE LET rest == legacy_entries(Tail(entries), kind, floor, note, db, fault)
                   cand == [r.val EXCEPT !.transport = [kind |-> kind, path |-> path],
                                         !.confidence = max(@, floor),
                                         !.notes = Append(@, note)]
               IN IF ~rest.ok THEN rest ELSE Ok(<<cand>> \o rest.val)

RECURSIVE legacy_serial(_, _, _, _)
legacy_serial(pats, fs, db, fault) ==
  IF pats = <<>> THEN Ok(<<>>)
  ELSE LET g == glob(Head(pats), fs, fault)
       IN IF ~g.ok THEN Err(g.err)
          ELSE LET here == legacy_entries(g.val, "Serial", 40,
                                          NoteSerialNode(Head(pats)), db, fault)
               IN IF ~here.ok THEN here
                  ELSE LET rest == legacy_serial(Tail(pats), fs, db, fault)
                       IN IF ~rest.ok THEN rest ELSE Ok(here.val \o rest.val)

discover_escpos_candidates(fs, db, fault) ==
  LET g == glob(PatUsbLp, fs, fault)
  IN IF ~g.ok THEN Pass(Err(g.err), <<>>, <<>>, <<"glob:lp">>)
     ELSE
     LET lp == legacy_entries(g.val, "UsbLp", 80, NoteUsbLp, db, fault)
     IN IF ~lp.ok THEN Pass(Err(lp.err), <<>>, <<>>, <<"glob:lp", "udev">>)
        ELSE
        LET ser == legacy_serial(serial_patterns, fs, db, fault)
        IN IF ~ser.ok
           THEN Pass(Err(ser.err), lp.val, <<>>, <<"glob:lp", "glob:serial", "udev">>)
           ELSE LET out == lp.val \o ser.val
                IN Pass(Ok(sort_by_confidence(dedup_by_transport_path(out))), out, out,
                        <<"glob:lp", "glob:serial">>
                          \o (IF out = <<>> THEN <<>> ELSE <<"udev">>))

\* ------------------------------------------------------- discover/mod.rs
\* DiscoveryProvider::discover_default: the backend of the target OS, built
\* with Default::default(); an empty list on any other OS.
discover_default(target_os, fs, db, ps, devs, fault) ==
  IF target_os = "linux"
  THEN LinuxDiscovery_discover(LinuxDiscovery_default, fs, db, fault)
  ELSE IF target_os = "macos"
  THEN MacDiscovery_discover(MacDiscovery_default, ps, devs, fault)
  ELSE Pass(Ok(<<>>), <<>>, <<>>, <<>>)

\* The backend of the target OS built with new().
discover_new(target_os, fs, db, ps, devs, fault) ==
  IF target_os = "linux"
  THEN LinuxDiscovery_discover(LinuxDiscovery_new, fs, db, fault)
  ELSE MacDiscovery_discover(MacDiscovery_new, ps, devs, fault)

\* ------------------------------------------------------------------ state
VARIABLES
  os,        \* the target OS of the build: "linux", "macos" or "other"
  devfs,     \* Linux: the device nodes present
  udevdb,    \* Linux: devnode -> udev properties, for the nodes udev knows
  ports,     \* macOS: what serialport::available_ports lists
  usbdevs,   \* macOS: the devices on the USB bus
  fault,     \* what fails underneath during a call
  pc,        \* "idle", or "returned" once a call has returned
  entry,     \* the entry point of the last call
  out,       \* its Result
  raw,       \* the candidates as the scanners produced them
  enriched,  \* the candidates after enrichment, before fusion and ranking
  calls      \* the enumeration calls it made, in order

vars == <<os, devfs, udevdb, ports, usbdevs, fault, pc, entry, out, raw, enriched, calls>>
host == <<os, devfs, udevdb, ports, usbdevs, fault>>

\* Sequences without repetition, of length at most n, over S
RECURSIVE DistinctSeqs(_, _)
DistinctSeqs(S, n) ==
  IF n = 0 THEN {<<>>}
  ELSE LET shorter == DistinctSeqs(S, n - 1)
       IN shorter \cup UNION {{Append(s, x) : x \in S \ Range(s)} : s \in shorter}

\* Sequences of length at most n over S
RECURSIVE Seqs(_, _)
Seqs(S, n) ==
  IF n = 0 THEN {<<>>}
  ELSE LET shorter == Seqs(S, n - 1)
       IN shorter \cup {Append(s, x) : s \in shorter, x \in S}

Idle ==
  /\ pc = "idle" /\ entry = "none" /\ out = Ok(<<>>)
  /\ raw = <<>> /\ enriched = <<>> /\ calls = <<>>

InitLinux ==
  /\ os = "linux"
  /\ devfs \in {S \in SUBSET NodeUniverse : Cardinality(S) <= MaxNodes}
  /\ \E D \in SUBSET devfs : udevdb \in [D -> PropsUniverse]
  /\ fault \in LinuxFaults
  /\ ports = <<>> /\ usbdevs = <<>>

InitMac ==
  /\ os = "macos"
  /\ ports \in DistinctSeqs(PortUniverse, MaxPorts)
  /\ usbdevs \in Seqs(UsbUniverse, MaxUsbDevices)
  /\ fault \in MacFaults
  /\ devfs = {} /\ udevdb = <<>>

InitOther ==
  /\ os = "other" /\ fault = "none"
  /\ devfs = {} /\ udevdb = <<>> /\ ports = <<>> /\ usbdevs = <<>>

Init == (InitLinux \/ InitMac \/ InitOther) /\ Idle

Returned(e, p) ==
  /\ pc' = "returned" /\ entry' = e
  /\ out' = p.out /\ raw' = p.raw /\ enriched' = p.enriched /\ calls' = p.calls
  /\ UNCHANGED host

\* A call through the facade.
DiscoverDefault ==
  /\ pc = "idle"
  /\ Returned("discover_default", discover_default(os, devfs, udevdb, ports, usbdevs, fault))

\* A call of the backend built with new().
DiscoverNew ==
  /\ pc = "idle" /\ os \in {"linux", "macos"}
  /\ Returned("new", discover_new(os, devfs, udevdb, ports, usbdevs, fault))

\* The detect command of main.rs.
DiscoverEscpos ==
  /\ pc = "idle" /\ os = "linux"
  /\ Returned("discover_escpos_candidates", discover_escpos_candidates(devfs, udevdb, fault))

\* The caller is done with the result; nothing of the call is kept.
Consume ==
  /\ pc = "returned"
  /\ pc' = "idle" /\ entry' = "none" /\ out' = Ok(<<>>)
  /\ raw' = <<>> /\ enriched' = <<>> /\ calls' = <<>>
  /\ UNCHANGED host

Next == DiscoverDefault \/ DiscoverNew \/ DiscoverEscpos \/ Consume

Spec == Init /\ [][Next]_vars

\* ------------------------------------------ the enricher on its own
\* enrich_with_udev applied to candidates of any shape: fields set or not,
\* any confidence, with any property record or none.
MaxEnrich == 1

EnrichNodes == {DevUsbLp0, DevTtyUSB0}

EnrichCandidates(node) ==
  { Candidate(IF node = DevUsbLp0 THEN UsbLp(node) ELSE Serial(node),
              mm, ids[1], ids[2], ids[3], c, <<NoteUsbLp>>) :
      mm \in {None, Some(<<"A", "c", "m", "e">>)},
      ids \in { <<None, None, None>>,
                <<Some(<<"S", "7">>), Some(<<"0", "4", "0", "3">>),
                  Some(<<"6", "0", "0", "1">>)>> },
      c \in {0, 40, 80, 100} }

\* Lists of candidates, one per node, of the nodes ns in order
RECURSIVE EnrichLists(_)
EnrichLists(ns) ==
  IF ns = <<>> THEN {<<>>}
  ELSE {<<c>> \o rest : c \in EnrichCandidates(Head(ns)), rest \in EnrichLists(Tail(ns))}

InitEnrich ==
  /\ os = "linux" /\ ports = <<>> /\ usbdevs = <<>>
  /\ \E ns \in DistinctSeqs(EnrichNodes, MaxEnrich) :
       /\ devfs = Range(ns)
       /\ raw \in EnrichLists(ns)
  /\ \E D \in SUBSET devfs : udevdb \in [D -> PropsUniverse]
  /\ fault \in {"none", "udev:new", "udev:scan"}
  /\ pc = "idle" /\ entry = "none" /\ out = Ok(<<>>)
  /\ enriched = raw /\ calls = <<>>

\* One call of enrich_with_udev(&mut cands): the list is enriched in place, or
\* left as it was when the udev enumeration fails.
EnrichCall ==
  /\ pc = "idle"
  /\ LET r == enrich_with_udev(raw, udevdb, fault)
     IN /\ out' = r
        /\ enriched' = IF r.ok THEN r.val ELSE raw
  /\ pc' = "returned" /\ entry' = "enrich_with_udev" /\ calls' = <<"udev">>
  /\ UNCHANGED <<host, raw>>

\* The caller drops the list.
EnrichDone ==
  /\ pc = "returned"
  /\ pc' = "done"
  /\ UNCHANGED <<host, raw, enriched, out, entry, calls>>

NextEnrich == EnrichCall \/ EnrichDone

SpecEnrich == InitEnrich /\ [][NextEnrich]_vars

\* ------------------------------------------ the evidence merge on its own
\* The evidence-merge operation of the design notes, over (confidence, notes)
\* pairs, applied to pairs of any confidence and notes.
MaxNotes == 2

Evidence(c, n) == [confidence |-> c, notes |-> n]

\* As combine, with the notes the first pair already has left out of the second's.
combine_dedup(a, b) ==
  Evidence(max(a.confidence, b.confidence),
           a.notes \o SelectSeq(b.notes, LAMBDA n : n \notin Range(a.notes)))

combine(a, b) ==
  Evidence(max(a.confidence, b.confidence), a.notes \o b.notes)

EvidenceNotes == {NoteUsbLp, NoteUdevIfaces}

EvidencePairs ==
  {Evidence(c, n) : c \in {40, 70, 90}, n \in Seqs(EvidenceNotes, MaxNotes)}

InitCombine ==
  /\ os = "other" /\ fault = "none"
  /\ devfs = {} /\ udevdb = <<>> /\ ports = <<>> /\ usbdevs = <<>>
  /\ raw \in {<<a, b, c>> : a \in EvidencePairs, b \in EvidencePairs, c \in EvidencePairs}
  /\ pc = "idle" /\ entry = "none" /\ out = Ok(<<>>)
  /\ enriched = <<>> /\ calls = <<>>

\* The pairs a, b, c = raw merged from the left, merged from the right, and
\* a merged with itself.
CombineCall ==
  /\ pc = "idle"
  /\ enriched' = << combine(combine(raw[1], raw[2]), raw[3]),
                    combine(raw[1], combine(raw[2], raw[3])),
                    combine(raw[1], raw[1]) >>
  /\ pc' = "returned" /\ entry' = "combine"
  /\ UNCHANGED <<host, raw, out, calls>>

CombineDone ==
  /\ pc = "returned"
  /\ pc' = "done"
  /\ UNCHANGED <<host, raw, enriched, out, entry, calls>>

NextCombine == CombineCall \/ CombineDone

SpecCombine == InitCombine /\ [][NextCombine]_vars

\* ------------------------------------------------------------- properties
\* A call of the discover module (the facade, or a backend built with new()).
EnginePass == pc = "returned" /\ entry \in {"discover_default", "new"}
\* Any discovery call, main.rs's included.
AnyPass == pc = "returned" /\ entry \in {"discover_default", "new", "discover_escpos_candidates"}

IsSerialNode(p) == pattern_matches(PatTtyUSB, p) \/ pattern_matches(PatTtyACM, p)

\* The dedup key of a candidate: the path of a device node, or (vid, pid, serial).
dedup_key(c) ==
  IF c.transport.kind \in {"UsbLp", "Serial"}
  THEN <<"path", c.transport.path>>
  ELSE <<"usb", c.transport.vid, c.transport.pid, c.transport.serial>>

RECURSIVE MaxConfidence(_)
MaxConfidence(cs) ==
  IF cs = <<>> THEN 0 ELSE max(Head(cs).confidence, MaxConfidence(Tail(cs)))

AllNotes(cs) == Concat([i \in 1..Len(cs) |-> cs[i].notes])

RECURSIVE FirstSome(_)
FirstSome(opts) ==
  IF opts = <<>> THEN None
  ELSE IF is_some(Head(opts)) THEN Head(opts) ELSE FirstSome(Tail(opts))

\* C1: through the facade, on a supported host where nothing fails, every
\* scanner of the backend runs and then the enricher: every serial node (on
\* macOS every serial port) of the host is in the returned list, and a
\* returned candidate whose udev record carries a vendor id carries that id.
C1_FacadeRunsBackend ==
  (pc = "returned" /\ entry = "discover_default" /\ fault = "none"
     /\ os \in {"linux", "macos"}) =>
    /\ out.ok
    /\ \A p \in devfs :
         IsSerialNode(p) => \E k \in 1..Len(out.val) : out.val[k].transport = Serial(p)
    /\ \A i \in 1..Len(ports) :
         \E k \in 1..Len(out.val) : out.val[k].transport = Serial(ports[i].port_name)
    /\ \A k \in 1..Len(out.val) :
         LET c == out.val[k]
         IN (/\ c.transport.kind \in {"UsbLp", "Serial"}
             /\ c.transport.path \in DOMAIN udevdb
             /\ has_useful_key(udevdb[c.transport.path])
             /\ is_some(udevdb[c.transport.path].ID_VENDOR_ID))
            => c.vid = udevdb[c.transport.path].ID_VENDOR_ID

\* C2: if two candidates of one pass share a dedup key, the returned list holds
\* exactly one candidate for that key, with the greatest confidence of the
\* group, the notes of the group concatenated in order, and for display name,
\* serial, vendor id and product id the first value present in the group.
C2_DuplicatesMerged ==
  (AnyPass /\ out.ok) =>
    \A i, j \in 1..Len(enriched) :
      (i < j /\ dedup_key(enriched[i]) = dedup_key(enriched[j])) =>
        LET key == dedup_key(enriched[i])
            SameKey(c) == dedup_key(c) = key
            group == SelectSeq(enriched, SameKey)
            hits == {k \in 1..Len(out.val) : dedup_key(out.val[k]) = key}
        IN /\ Cardinality(hits) = 1
           /\ \A k \in hits :
                /\ out.val[k].confidence = MaxConfidence(group)
                /\ out.val[k].notes = AllNotes(group)
                /\ out.val[k].make_model =
                     FirstSome([m \in 1..Len(group) |-> group[m].make_model])
                /\ out.val[k].serial = FirstSome([m \in 1..Len(group) |-> group[m].serial])
                /\ out.val[k].vid = FirstSome([m \in 1..Len(group) |-> group[m].vid])
                /\ out.val[k].pid = FirstSome([m \in 1..Len(group) |-> group[m].pid])

\* C3: the returned list is sorted by confidence, highest first: of two
\* neighbours the earlier has a confidence at least that of the later.
C3_SortedByConfidence ==
  (AnyPass /\ out.ok) =>
    \A k \in 1..(Len(out.val) - 1) : out.val[k].confidence >= out.val[k + 1].confidence

\* C3 witness: a list came back that the scanners and the enricher had left
\* with a lower confidence ahead of a higher one.
C3_Witness ==
  /\ AnyPass /\ out.ok /\ Len(out.val) >= 2
  /\ \E i, j \in 1..Len(enriched) :
       i < j /\ enriched[i].confidence < enriched[j].confidence

\* The place of a returned candidate in the scanners' output.
RawIndex(c) == CHOOSE i \in 1..Len(raw) : raw[i].transport = c.transport

\* C4 as claimed: two returned candidates of equal confidence stand in the
\* order the scanners produced them (class nodes, then /dev/ttyUSB*, then
\* /dev/ttyACM*).
C4_ScannerOrderKept ==
  (EnginePass /\ os = "linux" /\ out.ok) =>
    \A i, j \in 1..Len(out.val) :
      (i < j /\ out.val[i].confidence = out.val[j].confidence) =>
        RawIndex(out.val[i]) < RawIndex(out.val[j])

\* C4 as amended: two candidates of equal confidence returned by the Linux
\* backend stand in ascending byte order of their device-node paths.
C4_PathOrderKept ==
  (EnginePass /\ os = "linux" /\ out.ok) =>
    \A i, j \in 1..Len(out.val) :
      (i < j /\ out.val[i].confidence = out.val[j].confidence) =>
        StrLess(out.val[i].transport.path, out.val[j].transport.path)

\* C4 witness: two candidates of equal confidence came back in the opposite
\* of their scanner order.
C4_Witness ==
  /\ EnginePass /\ os = "linux" /\ out.ok
  /\ \E i, j \in 1..Len(out.val) :
       /\ i < j /\ out.val[i].confidence = out.val[j].confidence
       /\ RawIndex(out.val[i]) > RawIndex(out.val[j])

\* The record names a vendor and a model and lists an interface "0701".
IsScenarioA(props) ==
  /\ is_some(or_else(props.ID_VENDOR_FROM_DATABASE, props.ID_VENDOR))
  /\ is_some(or_else(props.ID_MODEL_FROM_DATABASE, props.ID_MODEL))
  /\ is_some(props.ID_USB_INTERFACES)
  /\ contains(unwrap(props.ID_USB_INTERFACES), <<"0", "7", "0", "1">>)

\* C5: a class-node candidate (confidence 80) whose property record names a
\* vendor, a model and a printer-class interface is returned with the display
\* name "<vendor> <model>", confidence 90, and both the class-node note and
\* the interface-class note.
C5_ScenarioA ==
  (EnginePass /\ os = "linux" /\ out.ok) =>
    \A i \in 1..Len(raw) :
      (/\ raw[i].transport.kind = "UsbLp" /\ raw[i].confidence = 80
       /\ raw[i].transport.path \in DOMAIN udevdb
       /\ IsScenarioA(udevdb[raw[i].transport.path])) =>
        LET props == udevdb[raw[i].transport.path]
            vendor == unwrap(or_else(props.ID_VENDOR_FROM_DATABASE, props.ID_VENDOR))
            model == unwrap(or_else(props.ID_MODEL_FROM_DATABASE, props.ID_MODEL))
        IN \E k \in 1..Len(out.val) :
             /\ out.val[k].transport = raw[i].transport
             /\ out.val[k].make_model = Some(vendor \o <<" ">> \o model)
             /\ out.val[k].confidence = 90
             /\ NoteUsbLp \in Range(out.val[k].notes)
             /\ NoteUdevIfaces \in Range(out.val[k].notes)

\* C6: a serial-node candidate (confidence 40) whose node has no property
\* record is returned as scanned: confidence 40, no display name, serial,
\* vendor id or product id, and the one note naming the pattern it matched.
C6_SerialWithoutRecord ==
  (EnginePass /\ os = "linux" /\ out.ok) =>
    \A i \in 1..Len(raw) :
      (/\ raw[i].transport.kind = "Serial" /\ raw[i].confidence = 40
       /\ raw[i].transport.path \notin DOMAIN udevdb) =>
        LET hits == {k \in 1..Len(out.val) : out.val[k].transport = raw[i].transport}
        IN /\ Cardinality(hits) = 1
           /\ \A k \in hits :
                /\ out.val[k].confidence = 40
                /\ is_none(out.val[k].make_model) /\ is_none(out.val[k].serial)
                /\ is_none(out.val[k].vid) /\ is_none(out.val[k].pid)
                /\ Len(out.val[k].notes) = 1
                /\ out.val[k].notes[1] \in
                     {<<"Found serial device node ({pat})", PatTtyUSB>>,
                      <<"Found serial device node ({pat})", PatTtyACM>>}

\* C6 witness: the enricher ran over a list holding a serial node udev does
\* not know, beside a node it enriched.
C6_Witness ==
  /\ EnginePass /\ os = "linux" /\ out.ok /\ "udev" \in Range(calls)
  /\ \E i \in 1..Len(raw) :
       raw[i].transport.kind = "Serial" /\ raw[i].transport.path \notin DOMAIN udevdb
  /\ \E i \in 1..Len(raw) : enriched[i] # raw[i]

\* A device the bus scan keeps: a readable configuration with a class 0x07 interface.
IsPrinterDevice(d) == d.config_ok /\ \E i \in 1..Len(d.classes) : d.classes[i] = 7
Failed(r) == r.st \in {"error", "timeout"}
\* The manufacturer/product read of a device fails.
NameReadFails(d) == ~d.open_strings \/ Failed(d.manufacturer) \/ Failed(d.product)
\* The serial-number read of a device fails.
SerialReadFails(d) == ~d.open_serial \/ Failed(d.serial)

\* A bus scan that met no enumeration failure.
BusScanPass == EnginePass /\ entry = "new" /\ os = "macos" /\ fault = "none"
PrinterDevices == SelectSeq(usbdevs, IsPrinterDevice)

\* Every printer-class device has its candidate, in bus order, behind the
\* serial-port candidates, and every scanned candidate is returned.
BusScanComplete ==
  /\ out.ok
  /\ Len(raw) = Len(ports) + Len(PrinterDevices)
  /\ \A k \in 1..Len(PrinterDevices) :
       LET c == raw[Len(ports) + k]
       IN /\ c.transport.kind = "UsbDevice"
          /\ c.transport.vid = PrinterDevices[k].vid
          /\ c.transport.pid = PrinterDevices[k].pid
          /\ \E m \in 1..Len(out.val) : out.val[m] = c
  /\ Len(out.val) = Len(raw)

BrokenCall ==
  IF fault \in {"udev:new", "udev:scan"} THEN "udev"
  ELSE IF fault = "unreadable:/dev/usb" THEN "glob:lp"
  ELSE IF fault = "unreadable:/dev" THEN "glob:serial"
  ELSE IF fault = "serialport:available_ports" THEN "available_ports"
  ELSE IF fault \in {"usb:context", "usb:devices"} THEN "usb"
  ELSE "none"

\* The node lies in the directory the host's fault makes unreadable.
InUnreadableDir(p) ==
  \/ fault = "unreadable:/dev/usb" /\ ~IsSerialNode(p)
  \/ fault = "unreadable:/dev" /\ IsSerialNode(p)

C9_ConfidenceInRange ==
  (AnyPass /\ out.ok) =>
    \A k \in 1..Len(out.val) : out.val[k].confidence \in 0..100

\* C9 witness: a pass returned a candidate raised to the highest floor beside
\* one left at a scanner's baseline.
C9_Witness ==
  /\ AnyPass /\ out.ok
  /\ \E k \in 1..Len(out.val) : out.val[k].confidence = 90
  /\ \E k \in 1..Len(out.val) : out.val[k].confidence \in {35, 40}

\* C10: enrichment never lowers a confidence: whatever the candidate and its
\* property record, or the lack of one, the confidence after
\* enrich_with_udev is at least the confidence before.
C10_EnrichmentMonotonic ==
  (pc # "idle" /\ entry = "enrich_with_udev") =>
    /\ Len(enriched) = Len(raw)
    /\ \A i \in 1..Len(raw) : enriched[i].confidence >= raw[i].confidence

\* C10 witness: the enricher met a candidate already above every floor that
\* applied to it, and filled its display name.
C10_Witness ==
  /\ pc # "idle" /\ entry = "enrich_with_udev" /\ out.ok
  /\ \E i \in 1..Len(raw) :
       /\ raw[i].confidence = 100 /\ enriched[i].confidence = 100
       /\ is_none(raw[i].make_model) /\ is_some(enriched[i].make_model)
       /\ Len(enriched[i].notes) > Len(raw[i].notes)

\* The enricher ran to its end over the candidates raw and left enriched.
EnricherRan ==
  /\ pc # "idle" /\ entry \in {"discover_default", "new", "enrich_with_udev"}
  /\ os = "linux" /\ "udev" \in Range(calls) /\ out.ok
  /\ Len(enriched) = Len(raw)

\* The candidate's device node has a property record the enricher matched.
HasRecord(cand) ==
  /\ is_some(transport_path(cand))
  /\ unwrap(transport_path(cand)) \in DOMAIN udevdb
  /\ has_useful_key(udevdb[unwrap(transport_path(cand))])

RecordOf(cand) == udevdb[unwrap(transport_path(cand))]

\* The interface list of the record declares an interface of class 07.
DeclaresPrinterClass(props) ==
  /\ is_some(props.ID_USB_INTERFACES)
  /\ contains(unwrap(props.ID_USB_INTERFACES), <<":", "0", "7">>)

\* The display name holds one of the ten keywords, in any case.
HasKeyword(mm) ==
  \E k \in 1..Len(keywords) : contains(to_lowercase(unwrap(mm)), keywords[k])

\* The confidence the floors 90, 70 and 60 give a candidate that had the
\* confidence of before and has the display name of after.
FloorsConfidence(before, after, props) ==
  LET f90 == IF DeclaresPrinterClass(props) THEN 90 ELSE 0
      f70 == IF is_some(after.make_model) /\ HasKeyword(after.make_model)
             THEN 70 ELSE 0
      f60 == IF before.transport.kind = "Serial" /\ is_some(after.make_model)
             THEN 60 ELSE 0
  IN max(before.confidence, max(f90, max(f70, f60)))

\* C11: after enrichment of a device-node candidate with a matching property
\* record, its confidence is the maximum of its confidence before and of the
\* floors that apply, the floors being 90 (printer class declared), 70
\* (keyword in the display name) and 60 (a serial candidate with a display
\* name), and no other.
C11_FloorsApplied ==
  EnricherRan =>
    \A i \in 1..Len(raw) :
      HasRecord(raw[i]) =>
        enriched[i].confidence =
          FloorsConfidence(raw[i], enriched[i], RecordOf(raw[i]))

\* C12: a confidence is raised only together with a note: a candidate whose
\* confidence after enrichment is above its confidence before has a note
\* more, and a candidate a macOS scanner raised above its baseline (35 for a
\* serial port, 80 for a bus device) has a note beside the scanner's first.
C12_RaiseAppendsNote ==
  /\ EnricherRan =>
       \A i \in 1..Len(raw) :
         enriched[i].confidence > raw[i].confidence =>
           Len(enriched[i].notes) > Len(raw[i].notes)
  /\ (EnginePass /\ os = "macos" /\ out.ok) =>
       \A i \in 1..Len(raw) :
         raw[i].confidence >
           (IF raw[i].transport.kind = "UsbDevice" THEN 80 ELSE 35) =>
           Len(raw[i].notes) > 1

\* s is a prefix of t
IsPrefix(s, t) == Len(s) <= Len(t) /\ SubSeq(t, 1, Len(s)) = s

\* C13: enrichment only fills gaps: a display name, serial number, vendor id
\* or product id a candidate has before enrich_with_udev is the one it has
\* after, whatever its property record holds; its transport is unchanged and
\* the notes it had are a prefix of the notes it has after.
C13_OnlyFillsGaps ==
  (pc # "idle" /\ entry = "enrich_with_udev") =>
    /\ Len(enriched) = Len(raw)
    /\ \A i \in 1..Len(raw) :
         /\ enriched[i].transport = raw[i].transport
         /\ IsPrefix(raw[i].notes, enriched[i].notes)
         /\ is_some(raw[i].make_model) => enriched[i].make_model = raw[i].make_model
         /\ is_some(raw[i].serial) => enriched[i].serial = raw[i].serial
         /\ is_some(raw[i].vid) => enriched[i].vid = raw[i].vid
         /\ is_some(raw[i].pid) => enriched[i].pid = raw[i].pid

\* C13 witness: the enricher worked on a candidate that had a display name,
\* a serial number and ids, with a record holding other values for all four,
\* and appended a note to it.
C13_Witness ==
  /\ pc # "idle" /\ entry = "enrich_with_udev" /\ out.ok
  /\ \E i \in 1..Len(raw) :
       /\ HasRecord(raw[i])
       /\ is_some(raw[i].make_model) /\ is_some(raw[i].serial)
       /\ is_some(raw[i].vid) /\ is_some(raw[i].pid)
       /\ LET props == RecordOf(raw[i])
          IN /\ is_some(props.ID_VENDOR) /\ is_some(props.ID_MODEL)
             /\ is_some(props.ID_SERIAL_SHORT) /\ props.ID_SERIAL_SHORT # raw[i].serial
             /\ is_some(props.ID_VENDOR_ID) /\ props.ID_VENDOR_ID # raw[i].vid
             /\ is_some(props.ID_MODEL_ID) /\ props.ID_MODEL_ID # raw[i].pid
       /\ Len(enriched[i].notes) > Len(raw[i].notes)

Combined == pc # "idle" /\ entry = "combine"

\* C14: the evidence merge combine(a, b) = (max of the confidences, a's notes
\* followed by b's) is associative, combine(combine(a, b), c) =
\* combine(a, combine(b, c)), and idempotent, combine(a, a) = a, for all
\* pairs a, b, c.
C14_AssociativeIdempotent ==
  Combined =>
    /\ enriched[1] = enriched[2]
    /\ enriched[3] = raw[1]

\* C14 as amended: combine is associative; merging a pair with itself keeps
\* its confidence and repeats its notes, combine(a, a) = (a.confidence,
\* a.notes ++ a.notes), so that combine(a, a) = a exactly when a has no notes.
C14_AssociativeNotesRepeat ==
  Combined =>
    /\ enriched[1] = enriched[2]
    /\ enriched[3] = Evidence(raw[1].confidence, raw[1].notes \o raw[1].notes)
    /\ (enriched[3] = raw[1]) <=> (raw[1].notes = <<>>)

\* C14 witness: three pairs of three different confidences, the highest in
\* the middle, each with notes, were merged in both orders.
C14_Witness ==
  /\ Combined
  /\ raw[1].confidence = 70 /\ raw[2].confidence = 90 /\ raw[3].confidence = 40
  /\ raw[1].notes # <<>> /\ raw[2].notes # <<>> /\ raw[3].notes # <<>>
  /\ raw[1].notes # raw[2].notes
  /\ enriched[1].confidence = 90 /\ Len(enriched[1].notes) >= 3
  /\ enriched[3] # raw[1]

====
